---- MODULE Spec2Model ----
(***************************************************************************)
(* StakeFlow ingestion pipeline: the chain client's event queries          *)
(* (backend/src/services/blockchain.py) and the indexing engine            *)
(* (backend/src/services/indexer.py): the run loop, the retried batch      *)
(* index_block_range, the per-event balance rules and pool sync, over a    *)
(* transactional store (a committed state and the session's view of it).   *)
(***************************************************************************)
EXTENDS Integers, Sequences, FiniteSets

\* ------------------------------------------------------------ bounds ----
\* Highest block of the modelled chain that carries logs.
MaxBlock == 3
\* Events applied in the ledger specification (SpecLedger).
MaxLedgerEvents == 3

\* ------------------------------------------------- program constants ----
\* settings.INDEX_START_BLOCK
INDEX_START_BLOCK == 0
\* settings.INDEXER_BATCH_SIZE, scaled to the modelled block range.
INDEXER_BATCH_SIZE == 2
\* stop_after_attempt(3)
MaxAttempts == 3
\* timedelta(days=7), in days; times are counted in seconds
DefaultLockDays == 7
DefaultLock == DefaultLockDays * 86400

CHAIN == "sepolia"
\* Addresses as the chain reports them (checksummed, mixed case).
Users == {"U1"}
\* str.lower() of an address.
Lower(u) == CASE u = "U1" -> "u1" [] u = "U2" -> "u2" [] OTHER -> u
\* The pools registered on-chain, ids 0 .. ChainPoolCount-1 (range(pool_count)).
ChainPoolIds == {0, 1}
\* Amounts carried by the events of the ledger specification (uint256).
Amounts == {0, 1, 2}
\* event_names of get_all_events, in its order.
EventNames == <<"Staked", "Withdrawn", "RewardClaimed", "EmergencyWithdrawn">>
Kinds == {EventNames[i] : i \in 1..Len(EventNames)}
\* An attribute the decoded event args do not have (hasattr is false).
NoArg == 0 - 1
\* A head value the chain client may report.
Heads == 0..(MaxBlock + 1)
\* The sets of event kinds whose query may raise in one get_all_events call:
\* none, any single kind, all four.
FailableKinds == {{}} \cup {{EventNames[i]} : i \in 1..Len(EventNames)}
                 \cup {{EventNames[i] : i \in 1..Len(EventNames)}}
\* datetime.utcnow(): later than the timestamp of every modelled block.
UtcNow == MaxBlock + 2

Max(a, b) == IF a >= b THEN a ELSE b
Min(a, b) == IF a <= b THEN a ELSE b

\* ------------------------------------------ decimal strings (str/int) ----
Digits == <<"0", "1", "2", "3", "4", "5", "6", "7", "8", "9">>
DigitVal(c) == (CHOOSE i \in 1..10 : Digits[i] = c) - 1

RECURSIVE NatStr(_)
NatStr(n) == IF n < 10 THEN <<Digits[n + 1]>>
             ELSE NatStr(n \div 10) \o <<Digits[(n % 10) + 1]>>
\* str(n) of a Python int: its decimal digits, "-" first when negative.
Str(n) == IF n < 0 THEN <<"-">> \o NatStr(-n) ELSE NatStr(n)

RECURSIVE NatVal(_)
NatVal(s) == IF s = <<>> THEN 0
             ELSE 10 * NatVal(SubSeq(s, 1, Len(s) - 1)) + DigitVal(s[Len(s)])
\* int(s) of a decimal string.
Int_(s) == IF s[1] = "-" THEN 0 - NatVal(Tail(s)) ELSE NatVal(s)

\* ------------------------------------------------------ chain client ----
\* A decoded log: event name, position (blockNumber, logIndex) and args.
Log(k, b, i, p, u, a, r) ==
    [event |-> k, blockNumber |-> b, logIndex |-> i, poolId |-> p,
     user |-> u, amount |-> a, rewardAmount |-> r]

\* The logs of a block with one stake, and of a block whose four logs are
\* of the four kinds, by emission order (b: the block's number).
StakeBlock(b) == << Log("Staked", b, 0, 1, "U1", 2, NoArg) >>
MixedBlock(b) ==
    << Log("Withdrawn", b, 0, 1, "U1", 1, 1),
       Log("Staked", b, 1, 0, "U1", 1, NoArg),
       Log("EmergencyWithdrawn", b, 2, 0, "U1", 1, NoArg),
       Log("RewardClaimed", b, 3, 1, "U1", NoArg, 1) >>

\* The modelled chains: the two kinds of block alternate, either one first.
Chains == { [b \in 1..MaxBlock |-> IF (b + v) % 2 = 0 THEN MixedBlock(b)
                                   ELSE StakeBlock(b)] : v \in {0, 1} }

\* block.timestamp of get_block(block_number): grows with the block number.
BlockTime(b) == b
\* The blocks whose header the node no longer serves: get_block raises.
PrunedBlocks == {2}
GetBlockAnswers(b) == b \notin PrunedBlocks

RECURSIVE RangeLogs(_, _, _)
\* The chain's logs of blocks from..to, in chain order (what get_logs reads).
RangeLogs(c, from, to) ==
    IF from > to THEN <<>>
    ELSE (IF from \in DOMAIN c THEN c[from] ELSE <<>>) \o RangeLogs(c, from + 1, to)

\* get_events: the logs of one event kind, [] when the query raised.
GetEvents(c, event_name, from_block, to_block, ok) ==
    IF ok THEN SelectSeq(RangeLogs(c, from_block, to_block),
                         LAMBDA e : e.event = event_name)
    ELSE <<>>

KeyLeq(e1, e2) ==
    \/ e1.blockNumber < e2.blockNumber
    \/ e1.blockNumber = e2.blockNumber /\ e1.logIndex <= e2.logIndex

\* Insert e after the elements of the sorted s whose key is <= e's key.
RECURSIVE InsertSorted(_, _)
InsertSorted(e, s) ==
    IF s = <<>> THEN <<e>>
    ELSE IF KeyLeq(s[Len(s)], e) THEN Append(s, e)
    ELSE Append(InsertSorted(e, SubSeq(s, 1, Len(s) - 1)), s[Len(s)])

RECURSIVE SortedByKey(_)
\* list.sort(key=(blockNumber, logIndex)): stable, ascending. (The sorted
\* prefix t is bound as a value, so that it is computed once.)
SortedByKey(s) ==
    IF s = <<>> THEN <<>>
    ELSE CHOOSE r \in { InsertSorted(s[Len(s)], t) :
                          t \in {SortedByKey(SubSeq(s, 1, Len(s) - 1))} } : TRUE

RECURSIVE ExtendAll(_, _)
\* events.extend(event_logs) for each event name, in event_names order.
ExtendAll(byKind, i) ==
    IF i > Len(EventNames) THEN <<>>
    ELSE byKind[EventNames[i]] \o ExtendAll(byKind, i + 1)

\* (variant: one failing query empties every kind)
KindLogsAllOrNothing(c, from_block, to_block, failed) ==
    [k \in Kinds |-> GetEvents(c, k, from_block, to_block, failed = {})]
\* The four per-kind results; failed: the kinds whose query raised.
KindLogs(c, from_block, to_block, failed) ==
    [k \in Kinds |-> GetEvents(c, k, from_block, to_block, k \notin failed)]

\* (variant: the union is returned as extended)
GetAllEventsUnsorted(byKind) == ExtendAll(byKind, 1)
\* get_all_events: the union of the per-kind results, sorted.
GetAllEvents(byKind) == SortedByKey(ExtendAll(byKind, 1))

\* ---------------------------------------------------------- the store ----
\* SQL NULL / Python None for a string column.
Null == <<>>
\* The IndexerState row of the chain does not exist.
NoRow == 0 - 1

\* Pool.id of a row inserted without one: the table's next integer key.
NextPoolKey(pools) == Len(pools) + 1

\* pending_rewards of a Stake row inserted without one.
DefaultPendingRewards == Str(0)

\* Indices of the Stake rows a handler's select matches.
StakeMatches(stakes, pool_id, user) ==
    { i \in 1..Len(stakes) : /\ stakes[i].chain = CHAIN
                              /\ stakes[i].pool_id = pool_id
                              /\ stakes[i].user_address = user }
\* Indices of the Pool rows select(Pool).where(chain, pool_id) matches.
PoolMatches(pools, pool_id) ==
    { i \in 1..Len(pools) : pools[i].chain = CHAIN /\ pools[i].pool_id = pool_id }

First(S) == CHOOSE i \in S : \A j \in S : i <= j

\* A handler's outcome: raised (MultipleResultsFound of scalar_one_or_none),
\* the Stake table, and the index of the row it wrote (0: none).
Outcome(raised, stakes, hit) == [raised |-> raised, stakes |-> stakes, hit |-> hit]

StakeRow(pool_id, user, amount, pending, lastStake, unlock, active) ==
    [chain |-> CHAIN, pool_id |-> pool_id, user_address |-> user,
     staked_amount |-> amount, pending_rewards |-> pending,
     last_stake_time |-> lastStake, unlock_time |-> unlock, is_active |-> active]

PoolRow(id, pool_id, lock_duration) ==
    [id |-> id, chain |-> CHAIN, pool_id |-> pool_id, lock_duration |-> lock_duration]

\* ---------------------------------------------- balance-mutation rules ----
\* (variant: the amount replaces the balance)
StakedRowNoAdd(row, amount, timestamp, lock) ==
    [row EXCEPT !.staked_amount = Str(amount),
                !.last_stake_time = timestamp,
                !.unlock_time = timestamp + lock,
                !.is_active = TRUE]
\* The row _handle_stake leaves when it found one.
StakedRow(row, amount, timestamp, lock) ==
    [row EXCEPT !.staked_amount = Str(Int_(row.staked_amount) + amount),
                !.last_stake_time = timestamp,
                !.unlock_time = timestamp + lock,
                !.is_active = TRUE]

\* _handle_stake
HandleStake(stakes, pools, pool_id, user, amount, timestamp) ==
    LET m == StakeMatches(stakes, pool_id, user)
        pm == PoolMatches(pools, pool_id)
    IN  IF Cardinality(m) > 1 \/ Cardinality(pm) > 1
        THEN Outcome(TRUE, stakes, 0)
        ELSE LET lock == IF pm # {} THEN pools[First(pm)].lock_duration
                         ELSE DefaultLock
             IN  IF m # {}
                 THEN LET i == First(m)
                      IN  Outcome(FALSE,
                                  [stakes EXCEPT ![i] =
                                      StakedRow(stakes[i], amount, timestamp, lock)],
                                  i)
                 ELSE \* pool_ref_id: Pool.id of the first match, None without one
                      IF pm # {} /\ pools[First(pm)].id # 0
                      THEN Outcome(FALSE,
                                   Append(stakes,
                                          StakeRow(pools[First(pm)].id, user,
                                                   Str(amount), DefaultPendingRewards,
                                                   timestamp, timestamp + lock, TRUE)),
                                   Len(stakes) + 1)
                      ELSE Outcome(FALSE, stakes, 0)

\* (variant: every withdrawal deactivates the row)
WithdrawnRowDeactivates(row, amount) ==
    LET new_amount == Int_(row.staked_amount) - amount
    IN  [row EXCEPT !.staked_amount = Str(Max(0, new_amount)),
                    !.pending_rewards = Str(0),
                    !.is_active = FALSE]
\* (variant: no floor at zero)
WithdrawnRowNoFloor(row, amount) ==
    [row EXCEPT !.staked_amount = Str(Int_(row.staked_amount) - amount),
                !.pending_rewards = Str(0),
                !.is_active = (Int_(row.staked_amount) - amount > 0)]
\* The row _handle_withdraw leaves when it found one.
WithdrawnRow(row, amount) ==
    LET new_amount == Int_(row.staked_amount) - amount
    IN  IF new_amount <= 0
        THEN [row EXCEPT !.staked_amount = Str(0),
                         !.pending_rewards = Str(0),
                         !.is_active = FALSE]
        ELSE [row EXCEPT !.staked_amount = Str(new_amount),
                         !.pending_rewards = Str(0)]

\* _handle_withdraw
HandleWithdraw(stakes, pool_id, user, amount, timestamp) ==
    LET m == StakeMatches(stakes, pool_id, user)
    IN  IF Cardinality(m) > 1 THEN Outcome(TRUE, stakes, 0)
        ELSE IF m # {}
        THEN Outcome(FALSE,
                     [stakes EXCEPT ![First(m)] = WithdrawnRow(stakes[First(m)], amount)],
                     First(m))
        ELSE Outcome(FALSE, stakes, 0)

\* (variant: the row stays active)
EmergencyRowStaysActive(row) ==
    [row EXCEPT !.staked_amount = Str(0), !.pending_rewards = Str(0)]
\* The row _handle_emergency_withdraw leaves when it found one.
EmergencyRow(row) ==
    [row EXCEPT !.staked_amount = Str(0),
                !.pending_rewards = Str(0),
                !.is_active = FALSE]

\* _handle_emergency_withdraw
HandleEmergencyWithdraw(stakes, pool_id, user, amount) ==
    LET m == StakeMatches(stakes, pool_id, user)
    IN  IF Cardinality(m) > 1 THEN Outcome(TRUE, stakes, 0)
        ELSE IF m # {}
        THEN Outcome(FALSE,
                     [stakes EXCEPT ![First(m)] = EmergencyRow(stakes[First(m)])],
                     First(m))
        ELSE Outcome(FALSE, stakes, 0)

\* (variant: the claim also zeroes the balance)
HandleRewardClaimedZeroesAmount(stakes, pool_id, user) ==
    LET m == StakeMatches(stakes, pool_id, user)
    IN  IF Cardinality(m) > 1 THEN Outcome(TRUE, stakes, 0)
        ELSE IF m # {}
        THEN Outcome(FALSE,
                     [stakes EXCEPT ![First(m)].pending_rewards = Str(0),
                                    ![First(m)].staked_amount = Str(0)],
                     First(m))
        ELSE Outcome(FALSE, stakes, 0)
\* _handle_reward_claimed
HandleRewardClaimed(stakes, pool_id, user) ==
    LET m == StakeMatches(stakes, pool_id, user)
    IN  IF Cardinality(m) > 1 THEN Outcome(TRUE, stakes, 0)
        ELSE IF m # {}
        THEN Outcome(FALSE,
                     [stakes EXCEPT ![First(m)].pending_rewards = Str(0)],
                     First(m))
        ELSE Outcome(FALSE, stakes, 0)

\* timestamp of _process_event: the block's, utcnow() when get_block raised.
EventTime(e) ==
    IF GetBlockAnswers(e.blockNumber) THEN BlockTime(e.blockNumber) ELSE UtcNow

\* The StakingEvent row _process_event adds.
StakingEventRow(e, timestamp) ==
    [chain |-> CHAIN, event_type |-> e.event,
     block_number |-> e.blockNumber, log_index |-> e.logIndex,
     pool_id |-> e.poolId, user_address |-> Lower(e.user),
     amount |-> IF e.amount # NoArg THEN Str(e.amount) ELSE Null,
     reward_amount |-> IF e.rewardAmount # NoArg THEN Str(e.rewardAmount) ELSE Null,
     timestamp |-> timestamp]

\* The dispatch of _process_event on the event name.
Dispatch(stakes, pools, e, timestamp) ==
    CASE e.event = "Staked" ->
           HandleStake(stakes, pools, e.poolId, Lower(e.user), e.amount, timestamp)
      [] e.event = "Withdrawn" ->
           HandleWithdraw(stakes, e.poolId, Lower(e.user), e.amount, timestamp)
      [] e.event = "EmergencyWithdrawn" ->
           HandleEmergencyWithdraw(stakes, e.poolId, Lower(e.user), e.amount)
      [] e.event = "RewardClaimed" ->
           HandleRewardClaimed(stakes, e.poolId, Lower(e.user))
      [] OTHER -> Outcome(FALSE, stakes, 0)

\* (variant: the row of the event replaces the latest StakingEvent row)
ProcessEventOverwritesLog(t, e) ==
    LET timestamp == EventTime(e)
        out == Dispatch(t.stakes, t.pools, e, timestamp)
    IN  [raised |-> out.raised,
         hit |-> out.hit,
         view |-> [t EXCEPT !.events =
                               IF @ = <<>> THEN <<StakingEventRow(e, timestamp)>>
                               ELSE [@ EXCEPT ![Len(@)] = StakingEventRow(e, timestamp)],
                            !.stakes = out.stakes]]
\* (variant: the StakingEvent row is added only when a Stake row was written)
ProcessEventLogsOnHit(t, e) ==
    LET timestamp == EventTime(e)
        out == Dispatch(t.stakes, t.pools, e, timestamp)
    IN  [raised |-> out.raised,
         hit |-> out.hit,
         view |-> [t EXCEPT !.events = IF out.hit = 0 THEN @
                                       ELSE Append(@, StakingEventRow(e, timestamp)),
                            !.stakes = out.stakes]]
\* _process_event on the session's view t of the store: the view it leaves,
\* whether it raised, and the Stake row it wrote.
ProcessEvent(t, e) ==
    LET timestamp == EventTime(e)
        out == Dispatch(t.stakes, t.pools, e, timestamp)
    IN  [raised |-> out.raised,
         hit |-> out.hit,
         view |-> [t EXCEPT !.events = Append(t.events, StakingEventRow(e, timestamp)),
                            !.stakes = out.stakes]]

\* ----------------------------------------------------------- pool sync ----
\* pool_info.lock_duration of the on-chain pool (seconds).
ChainLockDuration(pool_id) == pool_id + 1

\* (variant: a row is inserted on every pass)
SyncOnePoolAlwaysInsert(pools, pool_id) ==
    Append(pools, PoolRow(NextPoolKey(pools), pool_id, ChainLockDuration(pool_id)))
\* One pass of the loop body of sync_pools for pool_id.
SyncOnePool(pools, pool_id) ==
    LET pm == PoolMatches(pools, pool_id)
    IN  IF pm # {}
        THEN [pools EXCEPT ![First(pm)].lock_duration = ChainLockDuration(pool_id)]
        ELSE Append(pools,
                    PoolRow(NextPoolKey(pools), pool_id, ChainLockDuration(pool_id)))

RECURSIVE SyncFrom(_, _, _, _)
\* for pool_id in range(pool_count), from pool_id on; absent: the pools
\* whose get_pool_info returned None.
SyncFrom(pools, pool_id, pool_count, absent) ==
    IF pool_id >= pool_count THEN pools
    ELSE SyncFrom(IF pool_id \in absent THEN pools ELSE SyncOnePool(pools, pool_id),
                  pool_id + 1, pool_count, absent)

\* The Pool table sync_pools leaves in the session.
SyncedPools(pools, pool_count, absent) == SyncFrom(pools, 0, pool_count, absent)

\* ------------------------------------------------------------ session ----
\* The store as a transaction sees it: the IndexerState cursor (NoRow when
\* the row is absent) and the Pool, Stake and StakingEvent tables.
Store(state, pools, stakes, evs) ==
    [state |-> state, pools |-> pools, stakes |-> stakes, events |-> evs]

\* (variant: nothing is written)
CommitNothing(d, t) == d
\* db.commit(): the committed store becomes the session's view.
Commit(d, t) == t
\* (variant: the pending writes stay in the session)
RollbackKeepsPending(d, t) == t
\* db.rollback(): the session's view becomes the committed store.
Rollback(d, t) == d

\* (variant: every iteration runs a batch)
ShouldIndexAlways(current, last) == TRUE
\* run: the guard of a loop iteration's batch.
ShouldIndex(current, last) == current > last
\* (variant: the batch size does not cap the range)
ToBlockNoCap(current, last) == current - 1
\* run: to_block of the batch.
ToBlock(current, last) == Min(current - 1, last + INDEXER_BATCH_SIZE)

\* -------------------------------------------------------------- state ----
VARIABLES
    chain,          \* the chain's logs by block (the staking contract's events)
    db,             \* the committed store
    tx,             \* the session's view: the committed store and pending writes
    pc,             \* where run() stands
    stop_event,     \* self._stop_event is set
    is_running,     \* self.is_running
    last_block,     \* run: state.last_block_number as read in this iteration
    current_block,  \* run: get_block_number() as read in this iteration
    from_block,     \* index_block_range argument
    to_block,       \* index_block_range argument
    attempt,        \* the number of the attempt of index_block_range (tenacity)
    events,         \* index_block_range: the list get_all_events returned
    idx,            \* index_block_range: position of the for loop in events
    failed,         \* the event kinds whose get_events query raised in this attempt
    partial,        \* an earlier attempt of this call failed after applying events
    last,           \* the latest _process_event call: <<>> or <<its record>>
    applied,        \* per Stake row, the events that wrote it (ledger specification)
    multi           \* two engines on one store (multi-chain specification)

vars == <<chain, db, tx, pc, stop_event, is_running, last_block, current_block,
          from_block, to_block, attempt, events, idx, failed, partial, last, applied,
          multi>>

locals == <<last_block, current_block, from_block, to_block>>
batch == <<attempt, events, idx, failed, partial, last>>

InAttempt == {"process", "update", "commit"}

EmptyStore == Store(NoRow, <<>>, <<>>, <<>>)

Init ==
    /\ chain \in Chains
    /\ db = EmptyStore
    /\ tx = EmptyStore
    /\ pc = "init"
    /\ stop_event = FALSE
    /\ is_running = FALSE
    /\ last_block = 0 /\ current_block = 0 /\ from_block = 0 /\ to_block = 0
    /\ attempt = 0 /\ events = <<>> /\ idx = 0 /\ failed = {} /\ partial = FALSE
    /\ last = <<>>
    /\ applied = <<>>
    /\ multi = <<>>

\* The record of one _process_event call: the event, the Stake row it wrote
\* (hit, 0 when none), that row before the call (<<>> when none or created).
CallRecord(t, e, r) ==
    [event |-> e, hit |-> r.hit, raised |-> r.raised,
     before |-> IF r.hit \in 1..Len(t.stakes) THEN <<t.stakes[r.hit]>> ELSE <<>>]

\* The iteration's locals go out of scope.
EndIteration ==
    /\ last_block' = 0 /\ current_block' = 0 /\ from_block' = 0 /\ to_block' = 0
    /\ attempt' = 0 /\ events' = <<>> /\ idx' = 0 /\ failed' = {}
    /\ partial' = FALSE /\ last' = <<>>

\* (variant: initialize writes the start block whether or not a row exists)
RunResetsCursor ==
    /\ pc = "init"
    /\ is_running' = TRUE
    /\ tx' = [tx EXCEPT !.state = INDEX_START_BLOCK]
    /\ db' = Commit(db, tx')
    /\ pc' = "loop"
    /\ UNCHANGED <<chain, stop_event, locals, batch, applied, multi>>
\* run(), up to the loop: is_running = True and initialize().
Run ==
    /\ pc = "init"
    /\ is_running' = TRUE
    /\ IF tx.state = NoRow
       THEN /\ tx' = [tx EXCEPT !.state = INDEX_START_BLOCK]
            /\ db' = Commit(db, tx')
       ELSE UNCHANGED <<tx, db>>
    /\ pc' = "loop"
    /\ UNCHANGED <<chain, stop_event, locals, batch, applied, multi>>

\* (variant: with the event set the loop goes to its wait)
LoopExitWaits ==
    /\ pc = "loop" /\ stop_event
    /\ pc' = "wait"
    /\ UNCHANGED <<chain, db, tx, stop_event, is_running, locals, batch, applied, multi>>
\* while not self._stop_event.is_set(): the event is set, run() returns.
LoopExit ==
    /\ pc = "loop" /\ stop_event
    /\ pc' = "done"
    /\ UNCHANGED <<chain, db, tx, stop_event, is_running, locals, batch, applied, multi>>

\* (variant: the iteration starts whether or not the stop event is set)
PollIgnoresStop ==
    /\ pc = "loop"
    /\ \E h \in Heads :
         /\ current_block' = h
         /\ last_block' = tx.state
         /\ pc' = IF ShouldIndex(h, tx.state) THEN "sync" ELSE "wait"
    /\ UNCHANGED <<chain, db, tx, stop_event, is_running, from_block, to_block,
                   batch, applied, multi>>
\* One iteration's reads: the cursor and the chain head h the client reports.
Poll ==
    /\ pc = "loop" /\ ~stop_event
    /\ \E h \in Heads :
         /\ current_block' = h
         /\ last_block' = tx.state
         /\ pc' = IF ShouldIndex(h, tx.state) THEN "sync" ELSE "wait"
    /\ UNCHANGED <<chain, db, tx, stop_event, is_running, from_block, to_block,
                   batch, applied, multi>>

\* except Exception of run: rollback, then the 5 s sleep.
LoopFault(at) ==
    /\ pc = at
    /\ tx' = Rollback(db, tx)
    /\ pc' = "cooldown"
    /\ UNCHANGED <<chain, db, stop_event, is_running, locals, batch, applied, multi>>

\* get_block_number() (or the state query) raised.
PollFault == ~stop_event /\ LoopFault("loop")

\* (variant: the range starts at the cursor itself)
SyncPoolsFromCursor ==
    /\ pc = "sync"
    /\ \E pool_count \in 0..Cardinality(ChainPoolIds) :
       \E absent \in SUBSET (0..(pool_count - 1)) :
         /\ tx' = [tx EXCEPT !.pools = SyncedPools(tx.pools, pool_count, absent)]
         /\ db' = Commit(db, tx')
    /\ from_block' = last_block
    /\ to_block' = ToBlock(current_block, last_block)
    /\ attempt' = 1
    /\ partial' = FALSE
    /\ pc' = "attempt"
    /\ UNCHANGED <<chain, stop_event, is_running, last_block, current_block,
                   events, idx, failed, last, applied, multi>>
\* sync_pools(), then the batch's range; index_block_range is entered.
SyncPools ==
    /\ pc = "sync"
    /\ \E pool_count \in 0..Cardinality(ChainPoolIds) :
       \E absent \in SUBSET (0..(pool_count - 1)) :
         /\ tx' = [tx EXCEPT !.pools = SyncedPools(tx.pools, pool_count, absent)]
         /\ db' = Commit(db, tx')
    /\ from_block' = last_block + 1
    /\ to_block' = ToBlock(current_block, last_block)
    /\ attempt' = 1
    /\ partial' = FALSE
    /\ pc' = "attempt"
    /\ UNCHANGED <<chain, stop_event, is_running, last_block, current_block,
                   events, idx, failed, last, applied, multi>>

\* A query of sync_pools raised.
SyncFault == LoopFault("sync")

\* (variant: a failing query fails the attempt)
FetchRaisesOnFailure ==
    /\ pc = "attempt"
    /\ \E f \in FailableKinds :
         IF f # {}
         THEN /\ tx' = Rollback(db, tx)
              /\ pc' = IF attempt < MaxAttempts THEN "backoff" ELSE "cooldown"
              /\ UNCHANGED <<chain, db, stop_event, is_running, locals, batch,
                             applied, multi>>
         ELSE /\ failed' = f
              /\ events' = GetAllEvents(KindLogs(chain, from_block, to_block, f))
              /\ idx' = 1
              /\ last' = <<>>
              /\ pc' = IF events' = <<>> THEN "update" ELSE "process"
              /\ UNCHANGED <<chain, db, tx, stop_event, is_running, locals, attempt,
                             partial, applied, multi>>
\* index_block_range: get_all_events; kinds in f raised inside get_events.
Fetch ==
    /\ pc = "attempt"
    /\ \E f \in FailableKinds :
         /\ failed' = f
         /\ events' = GetAllEvents(KindLogs(chain, from_block, to_block, f))
    /\ idx' = 1
    /\ last' = <<>>
    /\ pc' = IF events' = <<>> THEN "update" ELSE "process"
    /\ UNCHANGED <<chain, db, tx, stop_event, is_running, locals, attempt, partial,
                   applied, multi>>

\* (variant: tenacity retries without a limit)
FailAttemptRetriesAlways ==
    /\ tx' = Rollback(db, tx)
    /\ partial' = (partial \/ idx > 1)
    /\ last' = <<>>
    /\ events' = <<>> /\ idx' = 0 /\ failed' = {}
    /\ pc' = "backoff"
    /\ UNCHANGED <<chain, db, stop_event, is_running, locals, attempt, applied, multi>>
\* except Exception of index_block_range: rollback and raise; tenacity retries
\* while fewer than MaxAttempts attempts were made, then the RetryError reaches
\* run's handler (rollback, cooldown).
FailAttempt ==
    /\ tx' = Rollback(db, tx)
    /\ partial' = (partial \/ idx > 1)
    /\ last' = <<>>
    /\ events' = <<>> /\ idx' = 0 /\ failed' = {}
    /\ pc' = IF attempt < MaxAttempts THEN "backoff" ELSE "cooldown"
    /\ UNCHANGED <<chain, db, stop_event, is_running, locals, attempt, applied, multi>>

\* for event in events: await self._process_event(event)
ProcessNext ==
    /\ pc = "process"
    /\ LET r == ProcessEvent(tx, events[idx])
       IN  IF r.raised
           THEN FailAttempt
           ELSE /\ tx' = r.view
                /\ idx' = idx + 1
                /\ last' = <<CallRecord(tx, events[idx], r)>>
                /\ pc' = IF idx = Len(events) THEN "update" ELSE "process"
                /\ UNCHANGED <<chain, db, stop_event, is_running, locals, attempt,
                               events, failed, partial, applied, multi>>

\* update(IndexerState).values(last_block_number=to_block, ...)
UpdateState ==
    /\ pc = "update"
    /\ tx' = [tx EXCEPT !.state = IF tx.state = NoRow THEN NoRow ELSE to_block]
    /\ pc' = "commit"
    /\ UNCHANGED <<chain, db, stop_event, is_running, locals, batch, applied, multi>>

\* await self.db.commit() of index_block_range
CommitBatch ==
    /\ pc = "commit"
    /\ db' = Commit(db, tx)
    /\ pc' = "wait"
    /\ UNCHANGED <<chain, tx, stop_event, is_running, locals, batch, applied, multi>>

\* A statement of the attempt raised (the store, the connection).
AttemptFault ==
    /\ pc \in InAttempt
    /\ FailAttempt

\* The backoff of tenacity expired: the next attempt.
BackoffDone ==
    /\ pc = "backoff"
    /\ attempt' = attempt + 1
    /\ pc' = "attempt"
    /\ UNCHANGED <<chain, db, tx, stop_event, is_running, locals, events, idx,
                   failed, partial, last, applied, multi>>

\* wait_for(self._stop_event.wait(), timeout): the event is set, or the
\* timeout raised TimeoutError (continue).
Wait ==
    /\ pc = "wait"
    /\ \/ stop_event /\ pc' = "loop"
       \/ ~stop_event /\ pc' = "loop"
    /\ EndIteration
    /\ UNCHANGED <<chain, db, tx, stop_event, is_running, applied, multi>>

\* (variant: run() returns after the failure)
CooldownDoneExits ==
    /\ pc = "cooldown"
    /\ pc' = "done"
    /\ EndIteration
    /\ UNCHANGED <<chain, db, tx, stop_event, is_running, applied, multi>>
\* asyncio.sleep(5) of run's handler returned.
CooldownDone ==
    /\ pc = "cooldown"
    /\ pc' = "loop"
    /\ EndIteration
    /\ UNCHANGED <<chain, db, tx, stop_event, is_running, applied, multi>>

\* stop()
Stop ==
    /\ pc # "ledger"
    /\ ~stop_event \/ is_running
    /\ is_running' = FALSE
    /\ stop_event' = TRUE
    /\ UNCHANGED <<chain, db, tx, pc, locals, batch, applied, multi>>

Next ==
    \/ Run \/ LoopExit \/ Poll \/ PollFault \/ SyncPools \/ SyncFault
    \/ Fetch \/ ProcessNext \/ UpdateState \/ CommitBatch \/ AttemptFault
    \/ BackoffDone \/ Wait \/ CooldownDone \/ Stop

Spec == Init /\ [][Next]_vars

\* The steps the event loop takes when the coroutine can run: a sleep expires,
\* an awaited call returns or raises.
Progress ==
    \/ Run \/ LoopExit \/ Poll \/ SyncPools \/ Fetch \/ ProcessNext
    \/ UpdateState \/ CommitBatch \/ BackoffDone \/ Wait \/ CooldownDone

\* A chain whose second block carries one log of each kind.
LiveChain == [b \in 1..MaxBlock |-> IF b = 2 THEN MixedBlock(b) ELSE <<>>]

InitLive ==
    /\ chain = LiveChain
    /\ db = EmptyStore
    /\ tx = EmptyStore
    /\ pc = "init"
    /\ stop_event = FALSE
    /\ is_running = FALSE
    /\ last_block = 0 /\ current_block = 0 /\ from_block = 0 /\ to_block = 0
    /\ attempt = 0 /\ events = <<>> /\ idx = 0 /\ failed = {} /\ partial = FALSE
    /\ last = <<>>
    /\ applied = <<>>
    /\ multi = <<>>

\* The engine on that chain, under a scheduler that keeps running the
\* coroutine.
SpecLive == InitLive /\ [][Next]_vars /\ WF_vars(Progress)

\* An engine constructed on the store an earlier run left: no IndexerState
\* row yet, or the cursor where that run committed it (here a run that
\* found no pool and stored no event).
InitRestart ==
    /\ chain = LiveChain
    /\ \E c \in {NoRow} \cup (INDEX_START_BLOCK..MaxBlock) :
         db = Store(c, <<>>, <<>>, <<>>)
    /\ tx = db
    /\ pc = "init"
    /\ stop_event = FALSE
    /\ is_running = FALSE
    /\ last_block = 0 /\ current_block = 0 /\ from_block = 0 /\ to_block = 0
    /\ attempt = 0 /\ events = <<>> /\ idx = 0 /\ failed = {} /\ partial = FALSE
    /\ last = <<>>
    /\ applied = <<>>
    /\ multi = <<>>

SpecRestart == InitRestart /\ [][Next]_vars

\* ------------------------------------------------ ledger specification ----
\* The balance rules alone: _process_event applied to arbitrary events, one
\* per block, on a store whose Pool table pool sync has filled.

\* The Pool tables two passes of sync_pools can leave.
SyncedTables ==
    { SyncedPools(SyncedPools(<<>>, n1, a1), n2, a2) :
        n1 \in 0..Cardinality(ChainPoolIds), a1 \in SUBSET ChainPoolIds,
        n2 \in {Cardinality(ChainPoolIds)}, a2 \in SUBSET ChainPoolIds }

\* The logs the n-th block may carry.
LedgerLogs(n) ==
    { Log("Staked", n, 0, p, u, a, NoArg) :
        p \in ChainPoolIds, u \in Users, a \in Amounts }
    \cup { Log("Withdrawn", n, 0, p, u, a, 1) :
              p \in ChainPoolIds, u \in Users, a \in Amounts }
    \cup { Log("EmergencyWithdrawn", n, 0, p, u, 1, NoArg) :
              p \in ChainPoolIds, u \in Users }
    \cup { Log("RewardClaimed", n, 0, p, u, NoArg, 1) : p \in ChainPoolIds, u \in Users }

InitLedger ==
    /\ chain = [b \in 1..MaxBlock |-> <<>>]
    /\ \E pools \in SyncedTables :
         /\ db = Store(INDEX_START_BLOCK, pools, <<>>, <<>>)
         /\ tx = db
    /\ pc = "ledger"
    /\ stop_event = FALSE
    /\ is_running = FALSE
    /\ last_block = 0 /\ current_block = 0 /\ from_block = 0 /\ to_block = 0
    /\ attempt = 0 /\ events = <<>> /\ idx = 0 /\ failed = {} /\ partial = FALSE
    /\ last = <<>>
    /\ applied = <<>>
    /\ multi = <<>>

\* What the call adds to the history of the row it wrote.
AppliedAfter(t, e, r) ==
    LET step == [event |-> e.event, amount |-> e.amount,
                 poolId |-> e.poolId, user |-> Lower(e.user)]
    IN  IF r.hit = 0 THEN applied
        ELSE IF r.hit > Len(t.stakes) THEN Append(applied, <<step>>)
        ELSE [applied EXCEPT ![r.hit] = Append(@, step)]

\* _process_event(e) returned.
LedgerApply ==
    /\ pc = "ledger"
    /\ Len(tx.events) < MaxLedgerEvents
    /\ \E e \in LedgerLogs(Len(tx.events) + 1) :
         LET r == ProcessEvent(tx, e)
         IN  /\ ~r.raised
             /\ tx' = r.view
             /\ last' = <<CallRecord(tx, e, r)>>
             /\ applied' = AppliedAfter(tx, e, r)
    /\ UNCHANGED <<chain, db, pc, stop_event, is_running, locals, attempt, events,
                   idx, failed, partial, multi>>

\* _process_event(e) raised: the session is rolled back to what it held.
LedgerRaise ==
    /\ pc = "ledger"
    /\ Len(tx.events) < MaxLedgerEvents
    /\ \E e \in LedgerLogs(Len(tx.events) + 1) :
         LET r == ProcessEvent(tx, e)
         IN  /\ r.raised
             /\ last' = <<CallRecord(tx, e, r)>>
    /\ UNCHANGED <<chain, db, tx, pc, stop_event, is_running, locals, attempt,
                   events, idx, failed, partial, applied, multi>>

NextLedger == LedgerApply \/ LedgerRaise

SpecLedger == InitLedger /\ [][NextLedger]_vars

\* ------------------------------------------- multi-chain specification ----
\* Two engines, one per chain, each with its own session, on one store.
\* An engine's code is the same for every chain and names its chain only
\* through self.chain: what the engine of chain c does to the store is what
\* the engine of CHAIN does to the store with the two names exchanged.

\* The chain of the second engine.
OTHER_CHAIN == "mainnet"
ChainNames == {CHAIN, OTHER_CHAIN}

\* self.chain of the engine of chain c, as the rules above name it.
Renamed(c, name) == IF name = c THEN CHAIN ELSE IF name = CHAIN THEN c ELSE name
RenamedRows(c, rows) ==
    [i \in 1..Len(rows) |-> [rows[i] EXCEPT !.chain = Renamed(c, @)]]

\* The tables of both chains: one IndexerState cursor per chain (NoRow
\* when the row is absent), and the Pool, Stake and StakingEvent tables.
SharedStore(state, pools, stakes, evs) ==
    [state |-> state, pools |-> pools, stakes |-> stakes, events |-> evs]

\* The committed store as the session of the engine of chain c reads it.
SessionOf(c, s) ==
    Store(s.state[c], RenamedRows(c, s.pools), RenamedRows(c, s.stakes),
          RenamedRows(c, s.events))
\* The store after that session committed the view v.
CommittedBy(c, s, v) ==
    SharedStore([s.state EXCEPT ![c] = v.state], RenamedRows(c, v.pools),
                RenamedRows(c, v.stakes), RenamedRows(c, v.events))

\* initialize(): the cursor row is written when the chain has none.
Initialized(d) ==
    IF d.state = NoRow THEN Commit(d, [d EXCEPT !.state = INDEX_START_BLOCK]) ELSE d

\* sync_pools() with every on-chain pool answering, committed.
PoolsSynced(d, pool_count) ==
    Commit(d, [d EXCEPT !.pools = SyncedPools(d.pools, pool_count, {})])

\* index_block_range(to_block, to_block) on a block whose only log is e:
\* committed, or rolled back when _process_event raised.
BatchOf(d, e, to) ==
    LET r == ProcessEvent(d, e)
    IN  IF r.raised THEN Rollback(d, r.view)
        ELSE Commit(d, [r.view EXCEPT !.state = IF @ = NoRow THEN NoRow ELSE to])

\* The logs the n-th block of a chain may carry.
ChainLogs(n) ==
    { Log("Staked", n, 0, p, u, 1, NoArg) : p \in ChainPoolIds, u \in Users }
    \cup { Log("Withdrawn", n, 0, p, u, 1, 1) : p \in ChainPoolIds, u \in Users }
    \cup { Log("EmergencyWithdrawn", n, 0, 0, u, 1, NoArg) : u \in Users }
    \cup { Log("RewardClaimed", n, 0, 1, u, NoArg, 1) : u \in Users }

\* multi.store: the committed store; multi.at[c]: where run() of the engine
\* of chain c stands; multi.alone[c]: the committed store of chain c when its
\* engine runs alone, on an empty store, against the same chain.
InitChains ==
    /\ chain = [b \in 1..MaxBlock |-> <<>>]
    /\ db = EmptyStore
    /\ tx = EmptyStore
    /\ pc = "chains"
    /\ stop_event = FALSE
    /\ is_running = FALSE
    /\ last_block = 0 /\ current_block = 0 /\ from_block = 0 /\ to_block = 0
    /\ attempt = 0 /\ events = <<>> /\ idx = 0 /\ failed = {} /\ partial = FALSE
    /\ last = <<>>
    /\ applied = <<>>
    /\ multi = [store |-> SharedStore([c \in ChainNames |-> NoRow], <<>>, <<>>, <<>>),
                at    |-> [c \in ChainNames |-> "init"],
                alone |-> [c \in ChainNames |-> EmptyStore]]

single == <<chain, db, tx, pc, stop_event, is_running, locals, batch, applied>>

\* run() of the engine of chain c, up to the loop.
ChainRun(c) ==
    /\ pc = "chains" /\ multi.at[c] = "init"
    /\ multi' = [multi EXCEPT
                   !.store = CommittedBy(c, @, Initialized(SessionOf(c, @))),
                   !.alone[c] = Initialized(@),
                   !.at[c] = "sync"]
    /\ UNCHANGED single

\* sync_pools() of the engine of chain c.
ChainSyncPools(c) ==
    /\ pc = "chains" /\ multi.at[c] = "sync"
    /\ \E pool_count \in 1..Cardinality(ChainPoolIds) :
         multi' = [multi EXCEPT
                     !.store = CommittedBy(c, @, PoolsSynced(SessionOf(c, @), pool_count)),
                     !.alone[c] = PoolsSynced(@, pool_count),
                     !.at[c] = "index"]
    /\ UNCHANGED single

\* index_block_range of the engine of chain c on the block after its
\* cursor, whose log is e. Alone, the engine reads the same block when its
\* cursor stands there too. A batch that raised is raised again by every
\* retry: the engine stays on it.
ChainIndex(c) ==
    /\ pc = "chains" /\ multi.at[c] = "index"
    /\ Len(multi.store.events) < MaxLedgerEvents
    /\ LET to == multi.store.state[c] + 1
       IN  \E e \in ChainLogs(to) :
             LET v == SessionOf(c, multi.store)
                 w == BatchOf(v, e, to)
             IN  multi' = [multi EXCEPT
                             !.store = CommittedBy(c, @, w),
                             !.alone[c] = IF @.state + 1 = to THEN BatchOf(@, e, to)
                                          ELSE @,
                             !.at[c] = IF w.state = to THEN "sync" ELSE "stuck"]
    /\ UNCHANGED single

NextChains == \E c \in ChainNames : ChainRun(c) \/ ChainSyncPools(c) \/ ChainIndex(c)

SpecChains == InitChains /\ [][NextChains]_vars

\* =============================================================== claims ====
RECURSIVE ApplyAll(_, _)
\* The view one uninterrupted pass of the for loop of index_block_range
\* leaves, from view t, over the events evs.
ApplyAll(t, evs) ==
    IF evs = <<>> THEN t ELSE ApplyAll(ProcessEvent(t, Head(evs)).view, Tail(evs))

\* A Stake table without its timestamps; a StakingEvent table without them.
StakeAmounts(stakes) ==
    [i \in 1..Len(stakes) |->
        [pool_id |-> stakes[i].pool_id, user_address |-> stakes[i].user_address,
         staked_amount |-> stakes[i].staked_amount,
         pending_rewards |-> stakes[i].pending_rewards,
         is_active |-> stakes[i].is_active]]
EventKeys(evs) ==
    [i \in 1..Len(evs) |->
        [event_type |-> evs[i].event_type, block_number |-> evs[i].block_number,
         log_index |-> evs[i].log_index, pool_id |-> evs[i].pool_id,
         user_address |-> evs[i].user_address, amount |-> evs[i].amount,
         reward_amount |-> evs[i].reward_amount]]

AttemptPcs == {"attempt", "process", "update", "commit"}

\* What C1 asks of one step taken from inside an attempt.
AttemptStep ==
    pc \in AttemptPcs =>
       \/ /\ pc' = "wait"
          /\ pc = "commit"
          /\ db'.state = to_block
          /\ db'.events = ApplyAll(db, events).events
          /\ db'.stakes = ApplyAll(db, events).stakes
          /\ db'.pools = db.pools
          /\ tx' = db'
       \/ /\ pc' \in {"backoff", "cooldown"}
          /\ db' = db
          /\ tx' = db
       \/ /\ pc' \in AttemptPcs
          /\ db' = db

\* C1: a batch is all-or-nothing. A step of an attempt of index_block_range
\* either is its commit, and then the committed StakingEvent rows, Stake rows
\* and cursor become, together, those of one pass over the fetched events with
\* the cursor at to_block; or is its failure (while processing events, at the
\* cursor update or at commit), and then the committed store is unchanged and
\* the session holds nothing but the committed store; or commits nothing.
C1_BatchAllOrNothing == [][AttemptStep]_vars

\* A batch of several events was committed at the first attempt.
C1_Witness ==
    /\ pc = "wait" /\ attempt = 1
    /\ Len(events) >= 2
    /\ db.state = to_block /\ to_block > last_block
    /\ Len(db.stakes) >= 1
    /\ Len(db.events) >= Len(events)

\* C2: the committed IndexerState.last_block_number never decreases, whatever
\* head the chain client reports and whatever fails.
C2_CursorMonotonic == [][ db'.state >= db.state ]_vars

\* The client reported a head below a cursor that had advanced.
C2_Witness ==
    /\ pc = "wait" /\ attempt = 0
    /\ last_block > INDEX_START_BLOCK
    /\ current_block < last_block
    /\ db.state = last_block

\* ---- C3 (ledger specification)
RECURSIVE SumOf(_, _)
\* The sum of the amounts of the events of one kind in a row's history.
SumOf(kind, h) ==
    IF h = <<>> THEN 0
    ELSE (IF Head(h).event = kind THEN Head(h).amount ELSE 0) + SumOf(kind, Tail(h))

RECURSIVE Replay(_, _)
\* The balance after a history, from balance b0: each Staked adds, each
\* Withdrawn subtracts and is floored at zero when it is applied.
Replay(b0, h) ==
    IF h = <<>> THEN b0
    ELSE Replay(IF Head(h).event = "Staked" THEN b0 + Head(h).amount
                ELSE Max(0, b0 - Head(h).amount),
                Tail(h))

\* No Withdrawn of the history exceeds the balance it is applied to.
NoOverdraw(h) ==
    \A n \in 1..Len(h) :
       SumOf("Staked", SubSeq(h, 1, n)) >= SumOf("Withdrawn", SubSeq(h, 1, n))

OnlyStakeWithdraw(h) == \A n \in 1..Len(h) : h[n].event \in {"Staked", "Withdrawn"}

NetSum(h) == SumOf("Staked", h) - SumOf("Withdrawn", h)

\* C3 as stated: over the whole history of a row, the staked amount is
\* max(0, sum of Staked - sum of Withdrawn).
C3_AmountIsFlooredNetSum ==
    \A i \in 1..Len(tx.stakes) :
       OnlyStakeWithdraw(applied[i]) =>
          Int_(tx.stakes[i].staked_amount) = Max(0, NetSum(applied[i]))

\* C3 amended: for every sequence of Staked and Withdrawn events applied to a
\* Stake row from its creation, the staked amount is the balance obtained by
\* adding each Staked amount and subtracting each Withdrawn amount with a floor
\* at zero at that event; it is never below max(0, sum of Staked - sum of
\* Withdrawn) and equals it when no Withdrawn exceeds the balance it meets.
C3_AmountIsReplay ==
    \A i \in 1..Len(tx.stakes) :
       OnlyStakeWithdraw(applied[i]) =>
          /\ Int_(tx.stakes[i].staked_amount) = Replay(0, applied[i])
          /\ Int_(tx.stakes[i].staked_amount) >= Max(0, NetSum(applied[i]))
          /\ NoOverdraw(applied[i]) =>
                Int_(tx.stakes[i].staked_amount) = NetSum(applied[i])

\* A row that met a withdrawal above its balance and was staked again: its
\* amount is the replayed balance, above the floored net sum.
C3_Witness ==
    \E i \in 1..Len(tx.stakes) :
       /\ OnlyStakeWithdraw(applied[i])
       /\ ~NoOverdraw(applied[i])
       /\ Int_(tx.stakes[i].staked_amount) = Replay(0, applied[i])
       /\ Int_(tx.stakes[i].staked_amount) > Max(0, NetSum(applied[i]))

\* ---- C4 (ledger specification)
AllStakeRows == {tx.stakes[i] : i \in 1..Len(tx.stakes)}
                \cup {db.stakes[i] : i \in 1..Len(db.stakes)}

\* The latest call was a Withdrawn that wrote a row whose balance was below
\* the amount withdrawn.
LastOverdraws ==
    /\ last # <<>>
    /\ last[1].event.event = "Withdrawn" /\ last[1].hit # 0
    /\ last[1].event.amount > Int_(last[1].before[1].staked_amount)

\* C4: every Stake row has a staked amount >= 0, and a Withdrawn above the
\* row's balance leaves the amount "0" and the row inactive.
C4_AmountNeverNegative ==
    /\ \A row \in AllStakeRows : Int_(row.staked_amount) >= 0
    /\ LastOverdraws =>
          /\ tx.stakes[last[1].hit].staked_amount = Str(0)
          /\ tx.stakes[last[1].hit].is_active = FALSE

\* A Withdrawn above a positive balance was applied.
C4_Witness ==
    /\ LastOverdraws
    /\ Int_(last[1].before[1].staked_amount) > 0
    /\ last[1].before[1].is_active

\* ---- C5 (engine specification)
\* What C5 asks of the commit of an attempt that follows failed ones.
RetriedCommitStep ==
    (pc = "commit" /\ pc' = "wait" /\ attempt > 1) =>
       /\ StakeAmounts(db'.stakes) = StakeAmounts(ApplyAll(db, events).stakes)
       /\ EventKeys(db'.events) = EventKeys(ApplyAll(db, events).events)
       /\ Len(db'.events) = Len(db.events) + Len(events)

\* C5: when attempts of index_block_range failed (also after events were
\* applied in the session) and a later attempt for the same range commits,
\* the committed Stake amounts and StakingEvent rows are those of a single
\* pass over the fetched events from the store as committed before the call:
\* no event is counted or logged twice.
C5_RetryIdempotent == [][RetriedCommitStep]_vars

\* A batch committed at a later attempt, after an attempt that had applied
\* events failed.
C5_Witness ==
    /\ pc = "wait" /\ attempt > 1 /\ partial
    /\ Len(events) >= 2
    /\ db.state = to_block
    /\ Len(db.stakes) >= 1

\* ---- C6 (engine specification)
IsSortedByKey(s) ==
    \A i \in 1..(Len(s) - 1) :
       \/ s[i].blockNumber < s[i + 1].blockNumber
       \/ /\ s[i].blockNumber = s[i + 1].blockNumber
          /\ s[i].logIndex <= s[i + 1].logIndex

Count(s, e) == Cardinality({i \in 1..Len(s) : s[i] = e})
\* s and u hold the same elements, each as many times.
SameElements(s, u) ==
    /\ Len(s) = Len(u)
    /\ \A i \in 1..Len(s) : Count(s, s[i]) = Count(u, s[i])

\* What the four per-kind queries of the attempt returned, as extended.
QueriedLogs == ExtendAll(KindLogs(chain, from_block, to_block, failed), 1)

\* C6: the list get_all_events returned holds exactly the events the four
\* per-kind queries returned and is ascending by (block_number, log_index).
C6_AllEventsSorted ==
    pc \in InAttempt =>
       /\ SameElements(events, QueriedLogs)
       /\ IsSortedByKey(events)

\* Events of several kinds were returned, and the per-kind results put end
\* to end were not in order.
C6_Witness ==
    /\ pc = "process" /\ idx = 1
    /\ Len(events) >= 3
    /\ ~IsSortedByKey(QueriedLogs)
    /\ IsSortedByKey(events)
    /\ events[1].event # events[2].event

\* ---- C7 (engine specification)
\* C7: the batch the loop runs is index_block_range(L+1, min(H-1, L+B)) for
\* the cursor L and head H it read, and after its commit the cursor is
\* min(H-1, L+B): not past H-1, not more than B blocks ahead of L.
C7_BatchRange ==
    /\ pc \in AttemptPcs \cup {"backoff"} =>
          /\ from_block = last_block + 1
          /\ to_block = Min(current_block - 1, last_block + INDEXER_BATCH_SIZE)
    /\ (pc = "wait" /\ attempt > 0) =>
          /\ db.state = Min(current_block - 1, last_block + INDEXER_BATCH_SIZE)
          /\ db.state <= current_block - 1
          /\ db.state - last_block <= INDEXER_BATCH_SIZE

\* A batch committed with the head more than a batch ahead of the cursor.
C7_Witness ==
    /\ pc = "wait" /\ attempt > 0
    /\ current_block - 1 > last_block + INDEXER_BATCH_SIZE
    /\ db.state = last_block + INDEXER_BATCH_SIZE

\* ---- C8 (engine specification)
\* The chain's logs of the range whose kind's query did not fail, in order.
SurvivingLogs ==
    SelectSeq(RangeLogs(chain, from_block, to_block), LAMBDA e : e.event \notin failed)

\* What C8 asks of a step: the fetch does not fail the attempt, and the
\* commit of an attempt in which one kind's query failed.
OneKindFailedStep ==
    /\ pc = "attempt" => pc' \in {"attempt", "process", "update"}
    /\ (pc = "commit" /\ pc' = "wait" /\ Cardinality(failed) = 1) =>
          /\ db'.state = to_block
          /\ db'.events = ApplyAll(db, SurvivingLogs).events
          /\ db'.stakes = ApplyAll(db, SurvivingLogs).stakes
          /\ \A i \in 1..Len(db'.events) :
                i > Len(db.events) => db'.events[i].event_type \notin failed

\* C8: when the log query of exactly one event kind fails for a range, the
\* batch still commits: the events of the other kinds are inserted and
\* applied, the failing kind contributes none, the fetch neither aborts nor
\* retries the attempt, and the cursor advances to to_block.
C8_OneKindFailureCommits == [][OneKindFailedStep]_vars

\* A first attempt committed events of the three other kinds while the query
\* of a kind that has logs in the range had failed.
C8_Witness ==
    /\ pc = "wait" /\ attempt = 1
    /\ Cardinality(failed) = 1
    /\ Len(events) >= 3
    /\ Len(events) < Len(RangeLogs(chain, from_block, to_block))
    /\ Cardinality({events[i].event : i \in 1..Len(events)}) = 3
    /\ db.state = to_block
    /\ Len(db.events) >= Len(events)

\* ---- C9 (ledger specification)
\* The latest call was an EmergencyWithdrawn that found a Stake row.
LastEmergencyHit ==
    /\ last # <<>>
    /\ last[1].event.event = "EmergencyWithdrawn"
    /\ last[1].hit # 0

C10_ActiveIffPositive ==
    \A i \in 1..Len(tx.stakes) :
       tx.stakes[i].is_active <=> (Int_(tx.stakes[i].staked_amount) > 0)

\* ---- C11 (ledger specification)
\* The (on-chain pool id, user) of the Staked event that created row i.
CreatedFor(i) == <<applied[i][1].poolId, applied[i][1].user>>

\* The rows that existed before the latest call.
RowsBeforeLast ==
    {i \in 1..Len(applied) : ~(last[1].hit = i /\ last[1].before = <<>>)}

\* C11: there is at most one Stake row per (chain, on-chain pool id, user),
\* and every event of a (chain, pool id, user) whose row exists finds and
\* mutates the row the first Staked event of that triple created.
C11_OneRowPerTriple ==
    /\ \A i, j \in 1..Len(applied) : i # j => CreatedFor(i) # CreatedFor(j)
    /\ last # <<>> =>
          \A i \in RowsBeforeLast :
             CreatedFor(i) = <<last[1].event.poolId, Lower(last[1].event.user)>>
                => last[1].hit = i

\* ---- C12 (ledger specification)
\* The latest call was a Staked that returned.
LastStaked ==
    /\ last # <<>>
    /\ last[1].event.event = "Staked"
    /\ ~last[1].raised

\* The lock duration of the pool of the on-chain id pool_id.
PoolLock(pool_id) ==
    tx.pools[First(PoolMatches(tx.pools, pool_id))].lock_duration

\* C12: a Staked(amount) event always leaves a Stake row: created with staked
\* amount = amount and active when the handler found none, else amount added
\* to the row found; last_stake_time is the event time and unlock_time the
\* event time plus the pool's lock duration.
C12_StakedLeavesRow ==
    LastStaked =>
       LET e == last[1].event
           hit == last[1].hit
       IN  /\ hit # 0
           /\ tx.stakes[hit].is_active
           /\ tx.stakes[hit].last_stake_time = EventTime(e)
           /\ PoolMatches(tx.pools, e.poolId) # {}
           /\ tx.stakes[hit].unlock_time = EventTime(e) + PoolLock(e.poolId)
           /\ tx.stakes[hit].staked_amount =
                 IF last[1].before = <<>> THEN Str(e.amount)
                 ELSE Str(Int_(last[1].before[1].staked_amount) + e.amount)

\* ---- C13 (engine specification)
\* What C13 asks of the commit of a batch: one StakingEvent row per event
\* get_all_events returned, in their order, after the rows already stored.
CommitLogsEveryEvent ==
    (pc = "commit" /\ pc' = "wait") =>
       /\ Len(db'.events) = Len(db.events) + Len(events)
       /\ \A i \in 1..Len(events) :
             db'.events[Len(db.events) + i]
                = StakingEventRow(events[i], EventTime(events[i]))
       /\ \A i \in 1..Len(db.events) : db'.events[i] = db.events[i]

\* C13: a committed batch inserts exactly one StakingEvent row for each raw
\* event get_all_events returned for its range, whether or not the event
\* changed a Stake row.
C13_OneLogRowPerEvent == [][CommitLogsEveryEvent]_vars

\* The first batch of an empty store was committed: its first event, a
\* Withdrawn, met no Stake row, and neither did its last event.
C13_Witness ==
    /\ pc = "wait" /\ attempt >= 1
    /\ Len(events) >= 2
    /\ events[1].event = "Withdrawn"
    /\ last # <<>> /\ last[1].hit = 0
    /\ db.state = to_block
    /\ Len(db.events) = Len(events)
    /\ db.events[1].event_type = "Withdrawn"

\* ---- C14 (engine specification with fairness)
\* A step in which an attempt or an iteration failed.
FaultStep == pc' \in {"backoff", "cooldown"} /\ pc' # pc

\* A poll that read a head not more than one block above a cursor that can
\* still advance within the bound.
LowHeadPoll ==
    /\ pc = "loop" /\ pc' \in {"sync", "wait"}
    /\ last_block' < MaxBlock
    /\ current_block' - 1 <= last_block'

HealthyStep == ~FaultStep /\ ~LowHeadPoll

\* run() returns only after stop().
ExitStep == (pc # "done" /\ pc' = "done") => stop_event

\* C14: a failure (the exhaustion of the attempts included) never ends the
\* run loop, which exits only once stop() was called; and, under fairness,
\* when stop() is never called, failures eventually cease and the head read
\* is more than one block above the cursor, the cursor eventually advances.
C14_NeverGivesUp ==
    /\ [][ExitStep]_vars
    /\ [](pc = "cooldown" => <>(pc = "loop"))
    /\ ([]~stop_event /\ <>[][HealthyStep]_vars)
          => \A c \in INDEX_START_BLOCK..(MaxBlock - 1) :
                (db.state = c) ~> (db.state > c)

\* The loop is at its head again, not stopped, after a batch that had failed
\* all its attempts: the cursor is where it was.
C14_Witness ==
    /\ pc = "cooldown" /\ attempt = MaxAttempts /\ ~stop_event
    /\ partial
    /\ db.state = last_block /\ tx = db
    /\ current_block - 1 > last_block

\* ---- C15 (engine specification)
\* What C15 asks of a step of the retries of index_block_range.
RetryStep ==
    /\ attempt' <= MaxAttempts
    /\ (pc \in AttemptPcs /\ pc' = "backoff") =>
          /\ attempt < MaxAttempts
          /\ db' = db /\ tx' = db
    /\ (pc \in AttemptPcs /\ pc' = "cooldown") =>
          /\ attempt = MaxAttempts
          /\ db' = db /\ tx' = db
          /\ db'.state = last_block
    /\ (pc = "backoff" /\ pc' # pc) => (pc' = "attempt" /\ attempt' = attempt + 1)
    /\ (pc' = "attempt" /\ pc # pc') => pc \in {"sync", "backoff"}
    /\ (pc = "commit" /\ pc' # pc /\ pc' # "wait") => pc' \in {"backoff", "cooldown"}
    /\ (pc = "wait" /\ pc' # pc) => pc' = "loop"

\* C15: one call of index_block_range by the loop makes at most 3 attempts.
\* A failed attempt is rolled back and followed by another only while fewer
\* than 3 were made; a committed attempt ends the retries; the third failure
\* reaches the run loop with the cursor unchanged.
C15_AtMostThreeAttempts == [][RetryStep]_vars

\* The third attempt failed at its commit and the failure reached run().
C15_Witness ==
    /\ pc = "cooldown" /\ attempt = MaxAttempts
    /\ db.state = last_block /\ tx = db
    /\ to_block > last_block

\* ---- C16 (engine specification)
\* C16 as stated: an attempt whose event fetch failed is not committed (it is
\* retried), so no batch is committed with a failed log query.
C16_FetchFailureIsBatchFault ==
    (pc = "wait" /\ attempt >= 1) => failed = {}

\* What the amended C16 asks of a step.
FetchFailureStep ==
    /\ (pc = "attempt" /\ pc' # pc) =>
          /\ pc' \in {"process", "update"}
          /\ attempt' = attempt
          /\ events' = SortedByKey(SelectSeq(RangeLogs(chain, from_block, to_block),
                                             LAMBDA e : e.event \notin failed'))
    /\ (pc = "commit" /\ pc' = "wait" /\ failed # {}) =>
          /\ db'.state = to_block
          /\ Len(db'.events) = Len(db.events) + Len(events)

\* C16 amended: a failure while fetching the events of the range is not a
\* batch fault. The failing per-kind query yields an empty list, the attempt
\* goes on with the events of the kinds whose query succeeded (none when all
\* four failed), is not retried on that account, and its commit advances the
\* cursor to to_block.
C16_FetchFailureIsSwallowed == [][FetchFailureStep]_vars

\* A first attempt was committed although all four queries had failed on a
\* range that has logs: the cursor is past the range, no event was stored.
C16_Witness ==
    /\ pc = "wait" /\ attempt = 1
    /\ failed = Kinds
    /\ events = <<>>
    /\ RangeLogs(chain, from_block, to_block) # <<>>
    /\ db.state = to_block /\ to_block > last_block

\* ---- C17 (engine specification with fairness)
\* What C17 asks of a step once the stop event is set in the wait or at the
\* loop head: the engine only leaves, and the event stays set.
StoppedWaitStep ==
    (stop_event /\ pc \in {"wait", "loop", "done"}) =>
       /\ stop_event'
       /\ pc' \in {"wait", "loop", "done"}
       /\ pc = "loop" => pc' # "wait"
       /\ db' = db

\* C17: when stop() is called while the loop is in the poll-interval wait,
\* the wait ends and the loop exits; no chain-head query, pool sync or batch
\* follows that stop().
C17_StopWakesWait ==
    /\ [][StoppedWaitStep]_vars
    /\ (stop_event /\ pc = "wait") ~> (pc = "done")

\* stop() arrived in the wait of an iteration that ran no batch.
C17_Witness ==
    /\ pc = "wait" /\ stop_event /\ ~is_running
    /\ attempt = 0
    /\ current_block <= last_block

\* ---- C18 (engine specification)
\* What C18 asks of a step: no attempt of index_block_range starts once the
\* stop event is set.
AttemptStartStep == (pc' = "attempt" /\ pc # "attempt") => ~stop_event

\* C18: once stop() has been called no new batch attempt begins, wherever in
\* the loop the stop arrived.
C18_NoAttemptAfterStop == [][AttemptStartStep]_vars

\* ---- C19 (engine specification)
\* What C19 asks of a step that ends a backoff with the stop event set: it
\* does not lead to the next attempt.
BackoffEndStep == (pc = "backoff" /\ stop_event /\ pc' # pc) => pc' # "attempt"

\* C19: a stop() issued during a retry backoff interrupts the delay; the
\* engine reacts to it rather than waiting out the backoff and going on with
\* the next attempt.
C19_StopInterruptsBackoff == [][BackoffEndStep]_vars

\* ---- C20 (engine specification)
\* One balance rule applied to the replayed row r of a triple.
RuleStep(r, ev) ==
    CASE ev.event_type = "Staked" ->
           [exists |-> TRUE, amount |-> r.amount + Int_(ev.amount), active |-> TRUE]
      [] ev.event_type = "Withdrawn" /\ r.exists ->
           IF r.amount - Int_(ev.amount) <= 0
           THEN [r EXCEPT !.amount = 0, !.active = FALSE]
           ELSE [r EXCEPT !.amount = r.amount - Int_(ev.amount)]
      [] ev.event_type = "EmergencyWithdrawn" /\ r.exists ->
           [r EXCEPT !.amount = 0, !.active = FALSE]
      [] OTHER -> r

RECURSIVE RuleReplay(_, _, _, _)
\* The row of (pool_id, user) after the StakingEvent rows evs, from r.
RuleReplay(r, evs, pool_id, user) ==
    IF evs = <<>> THEN r
    ELSE RuleReplay(IF Head(evs).pool_id = pool_id /\ Head(evs).user_address = user
                    THEN RuleStep(r, Head(evs)) ELSE r,
                    Tail(evs), pool_id, user)

\* The committed Stake rows of the triple (CHAIN, pool_id, user).
CommittedRows(pool_id, user) ==
    {i \in 1..Len(db.stakes) : /\ db.stakes[i].pool_id = pool_id
                               /\ db.stakes[i].user_address = user}

\* C20: in every committed state the Stake row of each (chain, pool, user)
\* is what replaying the balance rules over the committed StakingEvent rows
\* of that triple gives: the ledger is a function of the committed log.
C20_LedgerIsReplayOfLog ==
    \A pool_id \in ChainPoolIds \cup {db.stakes[i].pool_id : i \in 1..Len(db.stakes)} :
    \A user \in {Lower(u) : u \in Users} :
       LET r == RuleReplay([exists |-> FALSE, amount |-> 0, active |-> FALSE],
                           db.events, pool_id, user)
           rows == CommittedRows(pool_id, user)
       IN  IF r.exists
           THEN /\ Cardinality(rows) = 1
                /\ \A i \in rows :
                      /\ db.stakes[i].staked_amount = Str(r.amount)
                      /\ db.stakes[i].pending_rewards = Str(0)
                      /\ db.stakes[i].is_active = r.active
           ELSE rows = {}

\* ---- C21 (engine specification)
\* The StakingEvent rows rows are in non-decreasing (block_number, log_index)
\* order.
RowsInOrder(rows) ==
    \A i \in 1..(Len(rows) - 1) :
       \/ rows[i].block_number < rows[i + 1].block_number
       \/ /\ rows[i].block_number = rows[i + 1].block_number
          /\ rows[i].log_index <= rows[i + 1].log_index

\* C21: over a whole run the events are applied in non-decreasing
\* (block_number, log_index) order: the rows the passes of _process_event
\* added, in the session and as committed, are in that order, and within an
\* attempt they are the events get_all_events returned, in its order.
C21_AppliedInOrder ==
    /\ RowsInOrder(tx.events)
    /\ RowsInOrder(db.events)
    /\ pc = "process" =>
          /\ Len(tx.events) = Len(db.events) + idx - 1
          /\ \A i \in 1..(idx - 1) :
                tx.events[Len(db.events) + i]
                   = StakingEventRow(events[i], EventTime(events[i]))

\* A second batch of several events was committed after a first one that
\* had stored events.
C21_Witness ==
    /\ pc = "wait" /\ attempt = 1
    /\ Len(events) >= 2
    /\ Len(db.events) > Len(events)
    /\ db.state = to_block
    /\ db.events[1].block_number < from_block

\* ---- C22 (engine specification)
\* What C22 asks of a step: a commit of a batch finds the cursor one block
\* below the batch's first block and leaves it on its last block, the rows
\* it adds are of blocks of the batch, no other step moves the cursor once
\* initialize has set it, and every committed row is of a block in
\* start_block + 1 .. cursor.
TilingStep ==
    /\ (pc = "commit" /\ pc' = "wait") =>
          /\ from_block = db.state + 1
          /\ db'.state = to_block
          /\ to_block >= db.state
          /\ \A i \in (Len(db.events) + 1)..Len(db'.events) :
                db'.events[i].block_number \in from_block..to_block
    /\ (pc # "commit" /\ db.state # NoRow) => db'.state = db.state
    /\ db.state = NoRow => db'.state \in {NoRow, INDEX_START_BLOCK}
    /\ \A i \in 1..Len(db'.events) :
          db'.events[i].block_number \in (INDEX_START_BLOCK + 1)..db'.state

\* C22: the committed batches tile the block axis without gap or overlap.
\* The first starts at start_block + 1, each later one at the previous
\* to_block + 1, and every committed StakingEvent row has a block number in
\* start_block + 1 .. cursor.
C22_BatchesTile == [][TilingStep]_vars

\* A batch was committed on top of an earlier one: rows of both are stored.
C22_Witness ==
    /\ pc = "wait" /\ attempt >= 1
    /\ last_block > INDEX_START_BLOCK
    /\ from_block = last_block + 1
    /\ db.state = to_block /\ to_block > last_block
    /\ \E i, j \in 1..Len(db.events) :
          /\ db.events[i].block_number <= last_block
          /\ db.events[j].block_number >= from_block

\* ---- C23 (engine specification)
\* C23: the loop is suspended in the poll-interval wait only when
\* chain_head - 1 <= cursor; after a commit that leaves chain_head - 1 above
\* the cursor the next batch starts without that wait.
C23_WaitOnlyWhenCaughtUp ==
    (pc = "wait" /\ ~stop_event) => current_block - 1 <= db.state

\* ---- C24 (engine specification)
\* C24: index_block_range is never invoked with an empty range: a batch runs
\* only with to_block > cursor.
C24_NoEmptyRange ==
    pc \in AttemptPcs => (from_block <= to_block /\ to_block > last_block)

\* ---- C25 (ledger specification)
\* The latest call was a Withdrawn that found a Stake row.
LastWithdrawHit ==
    /\ last # <<>>
    /\ last[1].event.event = "Withdrawn"
    /\ last[1].hit # 0

\* C25: Withdrawn(amount) on a row of balance b leaves, when b - amount > 0,
\* the amount b - amount, pending rewards 0 and the active flag,
\* last_stake_time and unlock_time as they were; when b - amount <= 0, the
\* amount 0, pending rewards 0 and the row inactive.
C25_WithdrawRule ==
    LastWithdrawHit =>
       LET old == last[1].before[1]
           new == tx.stakes[last[1].hit]
           rest == Int_(old.staked_amount) - last[1].event.amount
       IN  IF rest > 0
           THEN new = [old EXCEPT !.staked_amount = Str(rest),
                                  !.pending_rewards = Str(0)]
           ELSE /\ new.staked_amount = Str(0)
                /\ new.pending_rewards = Str(0)
                /\ new.is_active = FALSE

\* A Withdrawn of part of the balance of an active row was applied.
C25_Witness ==
    /\ LastWithdrawHit
    /\ last[1].event.amount > 0
    /\ Int_(last[1].before[1].staked_amount) > last[1].event.amount
    /\ last[1].before[1].is_active
    /\ tx.stakes[last[1].hit].is_active

\* ---- C26 (ledger specification)
\* What C26 asks of a call of _process_event whose event is not a Staked and
\* whose (chain, pool id, user) has no Stake row, none having been created
\* for it.
NoRowStep ==
    (/\ last' # <<>> /\ last' # last
     /\ last'[1].event.event # "Staked"
     /\ \A i \in 1..Len(applied) :
           CreatedFor(i) # <<last'[1].event.poolId, Lower(last'[1].event.user)>>)
       => /\ tx'.stakes = tx.stakes
          /\ tx'.events = Append(tx.events,
                                 StakingEventRow(last'[1].event,
                                                 EventTime(last'[1].event)))

\* C26: a Withdrawn, EmergencyWithdrawn or RewardClaimed event of a (chain,
\* pool, user) without a Stake row inserts its StakingEvent row and leaves
\* the Stake table as it was: no row created, no other user's or pool's row
\* modified.
C26_NoRowNoMutation == [][NoRowStep]_vars

\* ---- C27 (ledger specification)
\* The latest call was a RewardClaimed that found a Stake row.
LastClaimHit ==
    /\ last # <<>>
    /\ last[1].event.event = "RewardClaimed"
    /\ last[1].hit # 0

\* C27: RewardClaimed on an existing row sets pending rewards to 0 and
\* leaves the staked amount, the active flag, last_stake_time and
\* unlock_time as they were.
C27_ClaimRule ==
    LastClaimHit =>
       tx.stakes[last[1].hit]
          = [last[1].before[1] EXCEPT !.pending_rewards = Str(0)]

\* A RewardClaimed found an active row with a positive balance.
C27_Witness ==
    /\ LastClaimHit
    /\ Int_(last[1].before[1].staked_amount) > 0
    /\ last[1].before[1].is_active
    /\ tx.stakes[last[1].hit].pending_rewards = Str(0)

\* ---- C28 (restart specification)
\* What C28 asks of the step of run() that calls initialize, and of the
\* first read of the cursor after it.
InitializeStep ==
    /\ pc = "init" /\ pc' = "loop" =>
          /\ IF db.state = NoRow
             THEN db' = [db EXCEPT !.state = INDEX_START_BLOCK]
             ELSE db' = db
          /\ tx' = db'
    /\ (pc = "loop" /\ pc' \in {"sync", "wait"}) => last_block' = db.state

\* C28: initialize creates the IndexerState row, cursor at the configured
\* start block, only when the chain has none; an existing row is left as it
\* is, so a restarted engine resumes from the persisted cursor.
C28_InitializeOnlyOnce == [][InitializeStep]_vars

\* A restarted engine polled with the cursor an earlier run had persisted.
C28_Witness ==
    /\ pc = "sync" /\ is_running
    /\ last_block = MaxBlock - 1
    /\ db.state = last_block
    /\ db.pools = <<>> /\ db.events = <<>>

\* ---- C29 (engine specification)
\* The Pool table pools with every lock duration d seconds off the chain's.
Stale(pools, d) ==
    [i \in 1..Len(pools) |-> [pools[i] EXCEPT !.lock_duration = @ + d]]

\* At most one Pool row per (chain, pool id).
OneRowPerPool(pools) ==
    \A i, j \in 1..Len(pools) :
       (pools[i].chain = pools[j].chain /\ pools[i].pool_id = pools[j].pool_id)
          => i = j

\* Every row of pools is in synced, in place, with its key and pool id.
RowsKept(pools, synced) ==
    /\ Len(synced) >= Len(pools)
    /\ \A i \in 1..Len(pools) :
          /\ synced[i].id = pools[i].id
          /\ synced[i].pool_id = pools[i].pool_id
          /\ synced[i].chain = pools[i].chain

\* C29: pool sync is idempotent. From the Pool table of any reachable store,
\* also with stale lock durations, a pass of sync_pools against the chain's
\* pool list (pool_count pools, those in absent without info) followed by a
\* second pass gives the table of the first pass; the table has at most one
\* row per (chain, pool id); every existing row is kept, and a row whose pool
\* has info carries the chain's lock duration.
C29_SyncIdempotent ==
    /\ OneRowPerPool(tx.pools)
    /\ \A d \in {0, 1} :
       \A pool_count \in 0..Cardinality(ChainPoolIds) :
       \A absent \in SUBSET (0..(pool_count - 1)) :
          LET before == Stale(tx.pools, d)
              once == SyncedPools(before, pool_count, absent)
          IN  /\ SyncedPools(once, pool_count, absent) = once
              /\ OneRowPerPool(once)
              /\ RowsKept(before, once)
              /\ \A i \in 1..Len(once) :
                    (once[i].pool_id < pool_count /\ once[i].pool_id \notin absent)
                       => once[i].lock_duration = ChainLockDuration(once[i].pool_id)

\* Pool sync ran again before a later batch: the table holds one row per
\* pool, the pool of id 1 stored before the pool of id 0.
C29_Witness ==
    /\ pc = "attempt"
    /\ last_block > INDEX_START_BLOCK
    /\ Len(db.pools) = Cardinality(ChainPoolIds)
    /\ db.pools[1].pool_id = 1
    /\ db.pools[2].pool_id = 0

\* ---- C30 (engine specification)
\* What C30 asks of a step: the committed StakingEvent rows stay, in place.
AppendOnlyStep ==
    /\ Len(db'.events) >= Len(db.events)
    /\ \A i \in 1..Len(db.events) : db'.events[i] = db.events[i]

\* C30: the committed StakingEvent log is append-only: no step of the engine
\* (a committed batch, a failed or retried one, pool sync, cooldown, stop)
\* modifies or deletes a committed row.
C30_LogAppendOnly == [][AppendOnlyStep]_vars

\* A batch was committed at a retry, after a failed attempt that had applied
\* events, on top of rows an earlier batch had committed.
C30_Witness ==
    /\ pc = "wait" /\ attempt > 1 /\ partial
    /\ Len(events) >= 1
    /\ Len(db.events) > Len(events)
    /\ db.state = to_block

\* The rows of self.chain in a table.
OwnRows(rows) == SelectSeq(rows, LAMBDA r : r.chain = CHAIN)
\* The on-chain pool id of the Pool row whose storage key is id.
PoolOfKey(pools, id) == pools[CHOOSE i \in 1..Len(pools) : pools[i].id = id].pool_id
\* What a store holds for self.chain, storage keys left out: the cursor, the
\* Pool rows by on-chain id, the Stake rows with the on-chain id of the pool
\* they refer to, the StakingEvent rows.
ChainRows(d) ==
    [state  |-> d.state,
     pools  |-> [i \in 1..Len(OwnRows(d.pools)) |->
                   [pool_id |-> OwnRows(d.pools)[i].pool_id,
                    lock_duration |-> OwnRows(d.pools)[i].lock_duration]],
     stakes |-> [i \in 1..Len(OwnRows(d.stakes)) |->
                   [OwnRows(d.stakes)[i] EXCEPT !.pool_id = PoolOfKey(d.pools, @)]],
     events |-> OwnRows(d.events)]

\* The rows of chain c in the shared store, as stored.
RowsOfChain(c, s) ==
    [state  |-> s.state[c],
     pools  |-> SelectSeq(s.pools, LAMBDA r : r.chain = c),
     stakes |-> SelectSeq(s.stakes, LAMBDA r : r.chain = c),
     events |-> SelectSeq(s.events, LAMBDA r : r.chain = c)]

\* A step leaves the rows of every chain whose engine did not take it.
ForeignRowsStep ==
    pc = "chains" =>
       \A c \in ChainNames :
          multi'.at[c] = multi.at[c] =>
             RowsOfChain(c, multi'.store) = RowsOfChain(c, multi.store)
\* C31, first half: no action of the engine of a chain creates or modifies a
\* Pool, Stake, StakingEvent or IndexerState row of another chain.
C31_NoForeignWrite == [][ForeignRowsStep]_vars

\* C31: chains are isolated: under any interleaving of two engines for
\* different chains, the committed rows of each chain equal those its engine
\* commits when it runs alone against the same chain.
C31_ChainsIsolated ==
    pc = "chains" =>
       \A c \in ChainNames :
          ChainRows(SessionOf(c, multi.store)) = ChainRows(multi.alone[c])

\* Both engines have committed a batch, each on a store that holds rows of
\* the other chain.
C31_Witness ==
    /\ pc = "chains"
    /\ \A c \in ChainNames :
          /\ multi.store.state[c] > INDEX_START_BLOCK
          /\ RowsOfChain(c, multi.store).stakes # <<>>

\* C32: the run loop terminates after a stop: once stop() has been called,
\* at whatever point of the loop, run() eventually returns, when the loop's
\* steps and timers keep being taken.
C32_StopTerminates == stop_event ~> (pc = "done")

\* run() returned after a stop() that was called while it was executing,
\* and after it had committed a batch with events.
C32_Witness ==
    /\ pc = "done" /\ stop_event /\ ~is_running
    /\ db.state > INDEX_START_BLOCK
    /\ db.events # <<>>

\* run() is executing: it was called and has not returned.
RunExecuting == pc \notin {"init", "done", "ledger", "chains"}
\* C33: the is_running flag tracks the loop: is_running is true exactly
\* while run() is executing and stop() has not been called; once stop() has
\* been called is_running stays false, also when stop() is called before
\* run().
C33_IsRunningTracksLoop == is_running <=> (RunExecuting /\ ~stop_event)
====
